---- MODULE Spec2Model ----
(***************************************************************************)
(* A model of src/server.py: a threaded static-file HTTP server.           *)
(*                                                                         *)
(* The listener (the __main__ accept loop), the signal handler, one        *)
(* handler thread per accepted connection, and the peers that feed the     *)
(* sockets.  Request bytes are modelled line by line: a line carries what  *)
(* str.split() and str.partition(":") make of it.  The file system is a    *)
(* fixed tree with a symbolic link that leaves the document root.          *)
(***************************************************************************)
EXTENDS Integers, Sequences, FiniteSets, TLC

(***************************************************************************)
(* Bounds of the model.                                                    *)
(***************************************************************************)
MaxConn == 2      \* connections the listener accepts in Spec
MaxSend == 2      \* fragments the peers send in a run
MaxLoad == 21     \* sessions that run beside the modelled ones in SpecTracker

(***************************************************************************)
(* Program constants.                                                      *)
(***************************************************************************)
OK == 200
NO_CONTENT == 204
BAD_REQUEST == 400
FORBIDDEN == 403
NOT_FOUND == 404

\* t.join(timeout=3), in milliseconds.
JOIN_TIMEOUT == 3000

None == "<None>"

(***************************************************************************)
(* The file system.  Paths are sequences of components below "/".          *)
(* The process runs in /srv, so the default root "files" is /srv/files.    *)
(***************************************************************************)
ROOT_DIR == <<"srv", "files">>

RegularFile(c, r) ==
    [type |-> "file", content |-> c, readable |-> r, target |-> <<>>]

Directory == [type |-> "dir", content |-> "", readable |-> TRUE, target |-> <<>>]

SymLink(t) == [type |-> "link", content |-> "", readable |-> TRUE, target |-> t]

FS ==
    (<<>> :> Directory)
    @@ (<<"srv">> :> Directory)
    @@ (<<"srv", "passwd">> :> RegularFile("root:x:0", TRUE))
    @@ (<<"srv", "files">> :> Directory)
    @@ (<<"srv", "files", "index.html">> :> RegularFile("<p>hi</p>", TRUE))
    @@ (<<"srv", "files", "empty.txt">> :> RegularFile("", TRUE))
    @@ (<<"srv", "files", "secret.txt">> :> RegularFile("key", FALSE))
    @@ (<<"srv", "files", "sub">> :> Directory)
    @@ (<<"srv", "files", "link">> :> SymLink(<<"srv", "passwd">>))

\* The file a path names once the symbolic links on it are followed, as the
\* kernel does for stat() and open().
RECURSIVE FollowLinks(_, _)
FollowLinks(done, rest) ==
    IF rest = <<>> THEN done
    ELSE LET p == Append(done, Head(rest))
         IN  IF p \in DOMAIN FS /\ FS[p].type = "link"
             THEN FollowLinks(FS[p].target, Tail(rest))
             ELSE FollowLinks(p, Tail(rest))

exists(p) == FollowLinks(<<>>, p) \in DOMAIN FS

isfile(p) == exists(p) /\ FS[FollowLinks(<<>>, p)].type = "file"

access(p) == exists(p) /\ FS[FollowLinks(<<>>, p)].readable

\* open(file, "rb").read()
read(p) == FS[FollowLinks(<<>>, p)].content

\* os.path.normpath on the components: "." and "" vanish, ".." drops the
\* component before it (and is itself dropped at "/").  No link is followed.
RECURSIVE normpath(_, _)
normpath(done, rest) ==
    IF rest = <<>> THEN done
    ELSE LET c == Head(rest)
         IN  IF c \in {"", "."} THEN normpath(done, Tail(rest))
             ELSE IF c = ".."
                  THEN normpath(IF done = <<>> THEN done
                                ELSE SubSeq(done, 1, Len(done) - 1), Tail(rest))
                  ELSE normpath(Append(done, c), Tail(rest))

\* os.path.abspath(os.path.join(ROOT_DIR, rel)) for a relative rel.
abspath(rel) == normpath(<<>>, ROOT_DIR \o rel)

\* os.path.commonpath([a, b]): the longest common prefix of components.
RECURSIVE commonpath(_, _)
commonpath(a, b) ==
    IF a = <<>> \/ b = <<>> \/ Head(a) # Head(b) THEN <<>>
    ELSE <<Head(a)>> \o commonpath(Tail(a), Tail(b))

(***************************************************************************)
(* URIs.  unquote() and the split of uri.lstrip("/") at "/" are tables     *)
(* over the URIs the peers use.                                            *)
(***************************************************************************)
Uris ==
    {"/", "/index.html", "/empty.txt", "/secret.txt", "/missing.txt", "/sub",
     "/link", "/../passwd", "/%2e%2e/passwd", "/sub/../index.html"}

unquote(u) == IF u = "/%2e%2e/passwd" THEN "/../passwd" ELSE u

lstrip_split(u) ==
    CASE u = "/" -> <<>>
      [] u = "/index.html" -> <<"index.html">>
      [] u = "/empty.txt" -> <<"empty.txt">>
      [] u = "/secret.txt" -> <<"secret.txt">>
      [] u = "/missing.txt" -> <<"missing.txt">>
      [] u = "/sub" -> <<"sub">>
      [] u = "/link" -> <<"link">>
      [] u = "/../passwd" -> <<"..", "passwd">>
      [] u = "/%2e%2e/passwd" -> <<"%2e%2e", "passwd">>
      [] u = "/sub/../index.html" -> <<"sub", "..", "index.html">>

\* The containment test of get_file (line 141).
in_bounds(file) == commonpath(ROOT_DIR, file) = ROOT_DIR

\* get_file(uri): the path, or the exception raised.
get_file(uri0) ==
    LET uri == IF uri0 = "/" THEN "/index.html" ELSE uri0
        file == abspath(lstrip_split(uri))
    IN  IF ~in_bounds(file)
        THEN [exc |-> "PermissionError", file |-> <<>>]
        ELSE IF ~exists(file) \/ ~isfile(file)
        THEN [exc |-> "FileNotFoundError", file |-> <<>>]
        ELSE IF ~access(file)
        THEN [exc |-> "PermissionError", file |-> <<>>]
        ELSE [exc |-> "none", file |-> file]

\* mimetypes.guess_type(file)[0] or "application/octet-stream"
guess_type(file) ==
    LET name == file[Len(file)]
    IN  CASE name = "index.html" -> "text/html"
          [] name \in {"empty.txt", "secret.txt", "missing.txt"} -> "text/plain"
          [] OTHER -> "application/octet-stream"

(***************************************************************************)
(* Request bytes.  A line of the request is what the parser can see of it: *)
(* blank says the line is empty after strip(); fields is line.split();     *)
(* key, sep and value are line.partition(":").                             *)
(***************************************************************************)
RequestLine(m, u, v) ==
    [blank |-> FALSE, fields |-> <<m, u, v>>, key |-> "", sep |-> FALSE, value |-> ""]

ShortLine(m, u) ==
    [blank |-> FALSE, fields |-> <<m, u>>, key |-> "", sep |-> FALSE, value |-> ""]

HeaderLine(k, v) ==
    [blank |-> FALSE, fields |-> <<k, v>>, key |-> k, sep |-> TRUE, value |-> v]

NoColonLine(k) ==
    [blank |-> FALSE, fields |-> <<k>>, key |-> k, sep |-> FALSE, value |-> ""]

BlankLine ==
    [blank |-> TRUE, fields |-> <<>>, key |-> "", sep |-> FALSE, value |-> ""]

\* str.strip() and str.lower() on the header names and values in use.
strip(s) ==
    CASE s = " x" -> "x"
      [] s = " close" -> "close"
      [] s = " Close" -> "Close"
      [] s = " keep-alive" -> "keep-alive"
      [] s = " " -> ""
      [] OTHER -> s

lower(s) ==
    CASE s \in {"Host", "HOST"} -> "host"
      [] s \in {"Connection", "CONNECTION"} -> "connection"
      [] s = "X-Trace" -> "x-trace"
      [] OTHER -> s

\* b"\r\n\r\n" in request: some line of the bytes read so far is followed by
\* an empty line (every line of the model ends in "\r\n").
has_terminator(lines) == \E i \in 2 .. Len(lines) : lines[i].blank

\* The header loop of parse_request (lines 103-117): acc is <<host, connection>>.
RECURSIVE scan_headers(_, _)
scan_headers(hs, acc) ==
    IF hs = <<>> THEN acc
    ELSE LET header == Head(hs)
             key == lower(strip(header.key))
             value == strip(header.value)
         IN  IF header.blank THEN acc
             ELSE IF ~header.sep THEN scan_headers(Tail(hs), acc)
             ELSE IF key = "host" THEN scan_headers(Tail(hs), <<value, acc[2]>>)
             ELSE IF key = "connection"
                  THEN scan_headers(Tail(hs), <<acc[1], value>>)
             ELSE scan_headers(Tail(hs), acc)

NoRequest ==
    [exc |-> "ValueError", method |-> None, uri |-> None, version |-> None,
     host |-> None, connection |-> None]

\* parse_request without the Host test.
missing_host_never(ver, host) == FALSE

\* The Host test of line 120.
missing_host(ver, host) == ver = "HTTP/1.1" /\ host \in {None, ""}

\* parse_request once the terminator has been read (lines 83-131).
parse_lines(lines) ==
    IF Len(lines) < 1 THEN NoRequest
    ELSE LET req_line == lines[1].fields
         IN  IF Len(req_line) # 3 THEN NoRequest
             ELSE IF req_line[1] \notin {"GET", "HEAD"} THEN NoRequest
             ELSE LET hc == scan_headers(Tail(lines), <<None, None>>)
                  IN  IF missing_host(req_line[3], hc[1])
                      THEN NoRequest
                      ELSE [exc |-> "none", method |-> req_line[1],
                            uri |-> unquote(req_line[2]), version |-> req_line[3],
                            host |-> hc[1], connection |-> hc[2]]

(***************************************************************************)
(* Responses.  A header that may be absent is a sequence of length 0 or 1. *)
(* The Date header is the clock's and is left out.                         *)
(***************************************************************************)
\* respond without the branch for status 400.
connection_header_plain(status, version, connection) ==
    IF version = "HTTP/1.1" /\ connection \notin {None, ""} THEN <<connection>>
    ELSE <<>>

\* The Connection header of respond (lines 169-174).
connection_header(status, version, connection) ==
    IF version = "HTTP/1.1" /\ connection \notin {None, ""} THEN <<connection>>
    ELSE IF status = 400 THEN <<"close">>
    ELSE <<>>

\* respond with Content-Length on every response.
content_length_always(body) == <<Len(body)>>

\* The Content-Length header of respond (lines 166-167).
content_length_header(body) == IF body # "" THEN <<Len(body)>> ELSE <<>>

respond(status, version, body, content_type, connection) ==
    [version |-> version,
     status |-> status,
     content_type |-> content_type,
     content_length |-> content_length_header(body),
     connection |-> connection_header(status, version, connection),
     body |-> IF status # NO_CONTENT THEN body ELSE ""]

NoResponse ==
    [version |-> None, status |-> 0, content_type |-> None,
     content_length |-> <<>>, connection |-> <<>>, body |-> ""]

(***************************************************************************)
(* The Activity Tracker (lines 19-46).                                     *)
(***************************************************************************)
\* inc_active without the store to the global.
inc_active_lost(a) == a

inc_active(a) == a + 1

\* dec_active without the store to the global.
dec_active_lost(a) == a

dec_active(a) == IF a - 1 > 0 THEN a - 1 ELSE 0

\* keepalive_timeout with <= for < at both steps.
keepalive_timeout_late(n) == IF n <= 5 THEN 10 ELSE IF n <= 20 THEN 5 ELSE 2

keepalive_timeout(n) == IF n < 5 THEN 10 ELSE IF n < 20 THEN 5 ELSE 2

(***************************************************************************)
(* What the peers send.  A fragment is a run of lines that arrives in one  *)
(* piece.  CoreFragments feed the concurrent system; Requests are the      *)
(* complete requests of the single-connection system.                      *)
(***************************************************************************)
HostX == HeaderLine("Host", " x")

KeepAliveRequest == <<RequestLine("GET", "/index.html", "HTTP/1.1"), HostX, BlankLine>>

OldRequest == <<RequestLine("GET", "/", "HTTP/1.0"), BlankLine>>

FirstHalf == <<RequestLine("HEAD", "/missing.txt", "HTTP/1.1")>>

SecondHalf == <<HostX, BlankLine>>

CoreFragments == {KeepAliveRequest, OldRequest}

ConnClose == HeaderLine("Connection", " close")

ConnKeepAlive == HeaderLine("Connection", " keep-alive")

HeaderLines == {HostX, ConnClose, ConnKeepAlive}

\* Every block of at most two of the usual header lines, and some unusual ones.
HeaderBlocks ==
    {<<>>} \cup {<<a>> : a \in HeaderLines}
    \cup {<<a, b>> : a \in HeaderLines, b \in HeaderLines}
    \cup {<<HeaderLine("Host", " ")>>,
          <<NoColonLine("Host")>>,
          <<HeaderLine("HOST", " x"), HeaderLine("CONNECTION", " Close")>>,
          <<HeaderLine("X-Trace", " x"), HostX>>,
          <<HostX, ConnClose, ConnKeepAlive>>,
          <<HostX, ConnKeepAlive, ConnClose>>}

PlainBlocks == {<<>>, <<HostX>>, <<HostX, ConnClose>>, <<HostX, ConnKeepAlive>>}

Versions == {"HTTP/1.0", "HTTP/1.1"}

\* Every method, URI and version, and some lines that are no request line.
RequestLines ==
    {RequestLine(m, u, v) : m \in {"GET", "HEAD"}, u \in Uris, v \in Versions}
    \cup {RequestLine("POST", "/index.html", "HTTP/1.1"),
          RequestLine("GET", "/index.html", "HTTP/0.9"),
          ShortLine("GET", "/index.html")}

PlainLines ==
    {RequestLine("GET", u, v) : u \in {"/index.html", "/missing.txt"}, v \in Versions}

\* Every request line with the plain header blocks, and every header block
\* with the plain request lines.
Requests ==
    {<<l>> \o hs \o <<BlankLine>> : l \in RequestLines, hs \in PlainBlocks}
    \cup {<<l>> \o hs \o <<BlankLine>> : l \in PlainLines, hs \in HeaderBlocks}

\* Requests the parser rejects, one for each reason, the start of a request
\* that never gets its terminator, and a request it accepts.
BrokenFragments ==
    {<<ShortLine("GET", "/index.html"), BlankLine>>,
     <<RequestLine("POST", "/index.html", "HTTP/1.1"), HostX, BlankLine>>,
     <<RequestLine("GET", "/index.html", "HTTP/1.1"), ConnKeepAlive, BlankLine>>,
     FirstHalf,
     KeepAliveRequest}

\* A request in two halves, and a whole one.
SlowFragments == {FirstHalf, SecondHalf, KeepAliveRequest}

(***************************************************************************)
(* State.                                                                  *)
(***************************************************************************)
Conn == 1 .. MaxConn

VARIABLES
    stop_event,     \* the shutdown flag (line 18)
    _active,        \* the Activity Counter (line 19)
    threads,        \* the handlers the listener has recorded (line 16)
    server_open,    \* serverSocket is open
    lpc,            \* where the listener is
    t,              \* the listener's thread just started, 0 before any
    thread_list,    \* the listener's copy of threads (line 276)
    ji,             \* the index of the join loop (line 278)
    late,           \* connections accepted after the flag was set
    hpc,            \* where each handler is
    sock_open,      \* the handler's socket is open on the server side
    inbuf,          \* lines that arrived on the socket and were not yet read
    peer_closed,    \* the peer has closed its side
    nsend,          \* fragments the peer has sent
    rbuf,           \* parse_request's request: the lines read for this cycle,
                    \* kept until the cycle's response is written
    frame,          \* the handler's local variables
    sent,           \* responses written to the socket
    deregs,         \* dec_active calls of the handler
    closes          \* close calls of the handler on its socket

lvars == <<threads, server_open, lpc, t, thread_list, ji, late>>
pvars == <<inbuf, peer_closed, nsend>>
hvars == <<hpc, sock_open, rbuf, frame, sent, deregs, closes>>
vars == <<stop_event, _active, lvars, pvars, hvars>>

\* The handler's locals before its first cycle.  method, file and response
\* are unbound until assigned; n and tout are those of keepalive_timeout and
\* of the idle wait, tout in milliseconds.
NoFrame ==
    [version |-> None, connection |-> None, body |-> "", content_type |-> None,
     status |-> 0, method |-> None, file |-> <<>>, response |-> NoResponse,
     n |-> 0, tout |-> 0]

Init ==
    /\ stop_event = FALSE
    /\ _active = 0
    /\ threads = <<>>
    /\ server_open = TRUE
    /\ lpc = "test"
    /\ t = 0
    /\ thread_list = <<>>
    /\ ji = 0
    /\ late = 0
    /\ hpc = [h \in Conn |-> "unborn"]
    /\ sock_open = [h \in Conn |-> FALSE]
    /\ inbuf = [h \in Conn |-> <<>>]
    /\ peer_closed = [h \in Conn |-> FALSE]
    /\ nsend = [h \in Conn |-> 0]
    /\ rbuf = [h \in Conn |-> <<>>]
    /\ frame = [h \in Conn |-> NoFrame]
    /\ sent = [h \in Conn |-> 0]
    /\ deregs = [h \in Conn |-> 0]
    /\ closes = [h \in Conn |-> 0]

\* The interpreter exits when the main thread returns; the handlers are
\* daemon threads (line 267) and stop with it.
ProcessAlive == lpc # "done"

(***************************************************************************)
(* The signal handler (lines 49-50).                                       *)
(***************************************************************************)
\* A signal handler that flips the flag.
handle_signals_toggle ==
    /\ ProcessAlive
    /\ stop_event' = ~stop_event
    /\ UNCHANGED <<_active, lvars, pvars, hvars>>

handle_signals ==
    /\ ProcessAlive
    /\ stop_event' = TRUE
    /\ UNCHANGED <<_active, lvars, pvars, hvars>>

(***************************************************************************)
(* The listener (lines 259-279).                                           *)
(***************************************************************************)
\* The accept loop as while True.
L_test_blind ==
    /\ lpc = "test"
    /\ lpc' = "accept"
    /\ UNCHANGED <<stop_event, _active, threads, server_open, t, thread_list, ji,
                   late, pvars, hvars>>

\* while not stop_event.is_set()
L_test ==
    /\ lpc = "test"
    /\ lpc' = IF stop_event THEN "close" ELSE "accept"
    /\ UNCHANGED <<stop_event, _active, threads, server_open, t, thread_list, ji,
                   late, pvars, hvars>>

\* accept() returns a connection; the handler thread is created and started.
L_accept(limit) ==
    /\ lpc = "accept"
    /\ \E h \in Conn :
        /\ h <= limit
        /\ hpc[h] = "unborn"
        /\ \A g \in Conn : g < h => hpc[g] # "unborn"
        /\ hpc' = [hpc EXCEPT ![h] = "start"]
        /\ sock_open' = [sock_open EXCEPT ![h] = TRUE]
        /\ t' = h
    /\ late' = IF stop_event THEN late + 1 ELSE late
    /\ lpc' = "append"
    /\ UNCHANGED <<stop_event, _active, threads, server_open, thread_list, ji,
                   pvars, rbuf, frame, sent, deregs, closes>>

\* accept() times out after a second: continue
L_accept_timeout ==
    /\ lpc = "accept"
    /\ lpc' = "test"
    /\ UNCHANGED <<stop_event, _active, threads, server_open, t, thread_list, ji,
                   late, pvars, hvars>>

\* threads.append(t)
L_append ==
    /\ lpc = "append"
    /\ threads' = Append(threads, t)
    /\ lpc' = "test"
    /\ UNCHANGED <<stop_event, _active, server_open, t, thread_list, ji, late,
                   pvars, hvars>>

\* serverSocket.close()
L_close ==
    /\ lpc = "close"
    /\ server_open' = FALSE
    /\ lpc' = "copy"
    /\ UNCHANGED <<stop_event, _active, threads, t, thread_list, ji, late, pvars,
                   hvars>>

\* thread_list = list(threads)
L_copy ==
    /\ lpc = "copy"
    /\ thread_list' = threads
    /\ ji' = 1
    /\ lpc' = IF threads = <<>> THEN "done" ELSE "join"
    /\ UNCHANGED <<stop_event, _active, threads, server_open, t, late, pvars,
                   hvars>>

\* t.join(timeout=3) returns because the handler has finished
L_join ==
    /\ lpc = "join"
    /\ hpc[thread_list[ji]] = "done"
    /\ ji' = ji + 1
    /\ lpc' = IF ji = Len(thread_list) THEN "done" ELSE "join"
    /\ UNCHANGED <<stop_event, _active, threads, server_open, t, thread_list,
                   late, pvars, hvars>>

\* t.join() without a timeout: it returns only when the handler has finished.
L_join_untimed ==
    /\ lpc = "join"
    /\ hpc[thread_list[ji]] = "done"
    /\ ji' = ji + 1
    /\ lpc' = IF ji = Len(thread_list) THEN "done" ELSE "join"
    /\ UNCHANGED <<stop_event, _active, threads, server_open, t, thread_list,
                   late, pvars, hvars>>

\* t.join(timeout=3) returns because three seconds have passed
L_join_timeout ==
    /\ lpc = "join"
    /\ hpc[thread_list[ji]] # "done"
    /\ ji' = ji + 1
    /\ lpc' = IF ji = Len(thread_list) THEN "done" ELSE "join"
    /\ UNCHANGED <<stop_event, _active, threads, server_open, t, thread_list,
                   late, pvars, hvars>>

\* t.join(timeout=3) returns because three seconds have passed, with time as
\* the handler spends it: every recv and sendall returns within its half
\* second and the wait chosen under shutdown within its tenth, so only a
\* handler in a wait longer than the join's three seconds outlasts the join.
L_join_grace ==
    /\ lpc = "join"
    /\ hpc[thread_list[ji]] = "select"
    /\ frame[thread_list[ji]].tout > JOIN_TIMEOUT
    /\ ji' = ji + 1
    /\ lpc' = IF ji = Len(thread_list) THEN "done" ELSE "join"
    /\ UNCHANGED <<stop_event, _active, threads, server_open, t, thread_list,
                   late, pvars, hvars>>

(***************************************************************************)
(* The peers.                                                              *)
(***************************************************************************)
\* The fragments sent so far on the connections of S.
RECURSIVE Fragments(_)
Fragments(S) ==
    IF S = {} THEN 0
    ELSE LET h == CHOOSE x \in S : TRUE IN nsend[h] + Fragments(S \ {h})

Deliver(h, frag) ==
    /\ hpc[h] # "unborn"
    /\ sock_open[h]
    /\ ~peer_closed[h]
    /\ Fragments(Conn) < MaxSend
    /\ inbuf' = [inbuf EXCEPT ![h] = @ \o frag]
    /\ nsend' = [nsend EXCEPT ![h] = @ + 1]
    /\ UNCHANGED <<stop_event, _active, lvars, peer_closed, hvars>>

\* A peer sends a fragment whenever it likes.
PeerSend(h) == \E frag \in CoreFragments : Deliver(h, frag)

\* A peer sends a complete request once its earlier ones are answered.
PeerRequest(h) ==
    /\ nsend[h] = sent[h]
    /\ \E frag \in Requests : Deliver(h, frag)

\* A peer sends a request that cannot be parsed, or part of one.
PeerBroken(h) == \E frag \in BrokenFragments : Deliver(h, frag)

\* A peer sends a request whole or in two halves.
PeerSlow(h) == \E frag \in SlowFragments : Deliver(h, frag)

PeerClose(h) ==
    /\ hpc[h] # "unborn"
    /\ sock_open[h]
    /\ ~peer_closed[h]
    /\ peer_closed' = [peer_closed EXCEPT ![h] = TRUE]
    /\ UNCHANGED <<stop_event, _active, lvars, inbuf, nsend, hvars>>

(***************************************************************************)
(* The handler (lines 182-243).                                            *)
(***************************************************************************)
\* The except clauses of the cycle (lines 210-224).
on_ValueError(f) ==
    [f EXCEPT !.status = BAD_REQUEST, !.body = "<h1>400 Bad Request</h1>",
              !.content_type = "text/html"]

on_PermissionError(f) ==
    [f EXCEPT !.status = FORBIDDEN, !.body = "<h1>403 Forbidden</h1>",
              !.content_type = "text/html"]

on_FileNotFoundError(f) ==
    [f EXCEPT !.status = NOT_FOUND, !.body = "<h1>404 Not Found</h1>",
              !.content_type = "text/html"]

\* response = respond(status, date, version, body, content_type, connection)
build(f) ==
    [f EXCEPT !.response =
        respond(f.status, f.version, f.body, f.content_type, f.connection)]

\* Lines 197-205 once parse_request has the terminator: the handler's next
\* position and locals.
after_headers(f, lines) ==
    LET request == parse_lines(lines)
    IN  IF request.exc = "ValueError"
        THEN [pc |-> "send", frame |-> build(on_ValueError(f))]
        ELSE LET f1 == [f EXCEPT !.version = request.version,
                                 !.connection = request.connection,
                                 !.method = request.method]
                 got == get_file(request.uri)
             IN  CASE got.exc = "PermissionError" ->
                        [pc |-> "send", frame |-> build(on_PermissionError(f1))]
                   [] got.exc = "FileNotFoundError" ->
                        [pc |-> "send", frame |-> build(on_FileNotFoundError(f1))]
                   [] OTHER ->
                        [pc |-> "open",
                         frame |-> [f1 EXCEPT !.file = got.file,
                                              !.content_type = guess_type(got.file)]]

\* The persistence test without the status.
must_close_lenient(f) == f.version = "HTTP/1.0" \/ f.connection = "close"

\* The persistence test of line 231.
must_close(f) == f.version = "HTTP/1.0" \/ f.connection = "close" \/ f.status >= 400

\* inc_active(); settimeout(0.5)
H_start(h) ==
    /\ ProcessAlive
    /\ hpc[h] = "start"
    /\ _active' = inc_active(_active)
    /\ hpc' = [hpc EXCEPT ![h] = "loop"]
    /\ UNCHANGED <<stop_event, lvars, pvars, sock_open, rbuf, frame, sent, deregs,
                   closes>>

\* The top of a cycle without the test of the flag.
H_loop_deaf(h) ==
    /\ ProcessAlive
    /\ hpc[h] = "loop"
    /\ hpc' = [hpc EXCEPT ![h] = "parse"]
    /\ frame' = [frame EXCEPT ![h] =
            [NoFrame EXCEPT !.version = "HTTP/1.0", !.connection = None,
                            !.body = "", !.content_type = "text/html",
                            !.status = OK, !.n = frame[h].n,
                            !.tout = frame[h].tout]]
    /\ rbuf' = [rbuf EXCEPT ![h] = <<>>]
    /\ UNCHANGED <<stop_event, _active, lvars, pvars, sock_open, sent, deregs,
                   closes>>

\* The top of a cycle (lines 187-194) and the entry of parse_request (line 67).
\* The locals that the cycle assigns before it reads them (request, file,
\* response) are unbound again.
H_loop(h) ==
    /\ ProcessAlive
    /\ hpc[h] = "loop"
    /\ IF stop_event
       THEN /\ hpc' = [hpc EXCEPT ![h] = "finally"]
            /\ UNCHANGED <<frame, rbuf>>
       ELSE /\ hpc' = [hpc EXCEPT ![h] = "parse"]
            /\ frame' = [frame EXCEPT ![h] =
                    [NoFrame EXCEPT !.version = "HTTP/1.0", !.connection = None,
                                    !.body = "", !.content_type = "text/html",
                                    !.status = OK, !.n = frame[h].n,
                                    !.tout = frame[h].tout]]
            /\ rbuf' = [rbuf EXCEPT ![h] = <<>>]
    /\ UNCHANGED <<stop_event, _active, lvars, pvars, sock_open, sent, deregs,
                   closes>>

\* parse_request without the test of the flag.
H_parse_deaf(h) ==
    /\ ProcessAlive
    /\ hpc[h] = "parse"
    /\ hpc' = [hpc EXCEPT ![h] = "recv"]
    /\ UNCHANGED <<stop_event, _active, lvars, pvars, sock_open, rbuf, frame, sent,
                   deregs, closes>>

\* The top of parse_request's loop (lines 69-70): None makes the handler break.
H_parse(h) ==
    /\ ProcessAlive
    /\ hpc[h] = "parse"
    /\ hpc' = [hpc EXCEPT ![h] = IF stop_event THEN "finally" ELSE "recv"]
    /\ UNCHANGED <<stop_event, _active, lvars, pvars, sock_open, rbuf, frame, sent,
                   deregs, closes>>

\* A read that leaves what follows the first terminator for the next cycle.
H_recv_pipelined(h) ==
    /\ ProcessAlive
    /\ hpc[h] = "recv"
    /\ inbuf[h] # <<>>
    /\ LET request == rbuf[h] \o inbuf[h]
       IN  /\ rbuf' = [rbuf EXCEPT ![h] = request]
           /\ IF has_terminator(request)
              THEN LET next == after_headers(frame[h], request)
                       e == CHOOSE i \in 2 .. Len(request) :
                                request[i].blank /\ \A j \in 2 .. i - 1 : ~request[j].blank
                   IN  /\ hpc' = [hpc EXCEPT ![h] = next.pc]
                       /\ frame' = [frame EXCEPT ![h] = next.frame]
                       /\ inbuf' = [inbuf EXCEPT ![h] = SubSeq(request, e + 1, Len(request))]
              ELSE /\ hpc' = [hpc EXCEPT ![h] = "parse"]
                   /\ inbuf' = [inbuf EXCEPT ![h] = <<>>]
                   /\ UNCHANGED frame
    /\ UNCHANGED <<stop_event, _active, lvars, peer_closed, nsend, sock_open, sent,
                   deregs, closes>>

\* recv(4096) returns what has arrived (lines 72-79), and with the terminator
\* read the request is parsed and its file looked up.
H_recv(h) ==
    /\ ProcessAlive
    /\ hpc[h] = "recv"
    /\ inbuf[h] # <<>>
    /\ LET request == rbuf[h] \o inbuf[h]
       IN  /\ rbuf' = [rbuf EXCEPT ![h] = request]
           /\ IF has_terminator(request)
              THEN LET next == after_headers(frame[h], request)
                   IN  /\ hpc' = [hpc EXCEPT ![h] = next.pc]
                       /\ frame' = [frame EXCEPT ![h] = next.frame]
              ELSE /\ hpc' = [hpc EXCEPT ![h] = "parse"]
                   /\ UNCHANGED frame
    /\ inbuf' = [inbuf EXCEPT ![h] = <<>>]
    /\ UNCHANGED <<stop_event, _active, lvars, peer_closed, nsend, sock_open, sent,
                   deregs, closes>>

\* recv times out after half a second (lines 80-81): continue
H_recv_timeout(h) ==
    /\ ProcessAlive
    /\ hpc[h] = "recv"
    /\ inbuf[h] = <<>>
    /\ ~peer_closed[h]
    /\ hpc' = [hpc EXCEPT ![h] = "parse"]
    /\ UNCHANGED <<stop_event, _active, lvars, pvars, sock_open, rbuf, frame, sent,
                   deregs, closes>>

\* recv returns b"" (lines 73-76): ValueError("connection disrupted")
H_recv_eof(h) ==
    /\ ProcessAlive
    /\ hpc[h] = "recv"
    /\ inbuf[h] = <<>>
    /\ peer_closed[h]
    /\ hpc' = [hpc EXCEPT ![h] = "send"]
    /\ frame' = [frame EXCEPT ![h] = build(on_ValueError(frame[h]))]
    /\ UNCHANGED <<stop_event, _active, lvars, pvars, sock_open, rbuf, sent, deregs,
                   closes>>

\* recv raises an OSError that is no timeout (the peer reset the connection):
\* no except clause of the cycle takes it.
H_recv_error(h) ==
    /\ ProcessAlive
    /\ hpc[h] = "recv"
    /\ hpc' = [hpc EXCEPT ![h] = "finally"]
    /\ UNCHANGED <<stop_event, _active, lvars, pvars, sock_open, rbuf, frame, sent,
                   deregs, closes>>

\* with open(file, "rb") as f: body = f.read() if GET else b"" (lines 207-208)
H_open(h) ==
    /\ ProcessAlive
    /\ hpc[h] = "open"
    /\ LET f == frame[h]
       IN  frame' = [frame EXCEPT ![h] =
            build([f EXCEPT !.body = IF f.method = "GET" THEN read(f.file) ELSE ""])]
    /\ hpc' = [hpc EXCEPT ![h] = "send"]
    /\ UNCHANGED <<stop_event, _active, lvars, pvars, sock_open, rbuf, sent, deregs,
                   closes>>

\* open raises an OSError the cycle does not catch (no descriptor left).
H_open_error(h) ==
    /\ ProcessAlive
    /\ hpc[h] = "open"
    /\ hpc' = [hpc EXCEPT ![h] = "finally"]
    /\ UNCHANGED <<stop_event, _active, lvars, pvars, sock_open, rbuf, frame, sent,
                   deregs, closes>>

\* sendall(response) and the persistence test (lines 229-232).
H_send(h) ==
    /\ ProcessAlive
    /\ hpc[h] = "send"
    /\ sent' = [sent EXCEPT ![h] = @ + 1]
    /\ hpc' = [hpc EXCEPT ![h] = IF must_close(frame[h]) THEN "finally" ELSE "tout"]
    /\ rbuf' = [rbuf EXCEPT ![h] = <<>>]
    /\ UNCHANGED <<stop_event, _active, lvars, pvars, sock_open, frame, deregs,
                   closes>>

\* A handler without try/finally: the exception ends the thread at once.
H_send_error_unwound(h) ==
    /\ ProcessAlive
    /\ hpc[h] = "send"
    /\ hpc' = [hpc EXCEPT ![h] = "done"]
    /\ UNCHANGED <<stop_event, _active, lvars, pvars, sock_open, rbuf, frame, sent,
                   deregs, closes>>

\* sendall raises (broken pipe, reset, timeout).
H_send_error(h) ==
    /\ ProcessAlive
    /\ hpc[h] = "send"
    /\ hpc' = [hpc EXCEPT ![h] = "finally"]
    /\ UNCHANGED <<stop_event, _active, lvars, pvars, sock_open, rbuf, frame, sent,
                   deregs, closes>>

\* tout = keepalive_timeout() (line 234), read from the counter as it is now.
H_tout(h) ==
    /\ ProcessAlive
    /\ hpc[h] = "tout"
    /\ LET f == frame[h]
       IN  frame' = [frame EXCEPT ![h] =
            [f EXCEPT !.n = _active, !.tout = 1000 * keepalive_timeout(_active)]]
    /\ hpc' = [hpc EXCEPT ![h] = "stopped"]
    /\ UNCHANGED <<stop_event, _active, lvars, pvars, sock_open, rbuf, sent, deregs,
                   closes>>

\* The handler without lines 236-237.
H_stopped_ignored(h) ==
    /\ ProcessAlive
    /\ hpc[h] = "stopped"
    /\ hpc' = [hpc EXCEPT ![h] = "select"]
    /\ UNCHANGED <<stop_event, _active, lvars, pvars, sock_open, rbuf, frame, sent,
                   deregs, closes>>

\* if stop_event.is_set(): tout = 0.1 (lines 236-237)
H_stopped(h) ==
    /\ ProcessAlive
    /\ hpc[h] = "stopped"
    /\ LET f == frame[h]
       IN  frame' = [frame EXCEPT ![h] =
            [f EXCEPT !.tout = IF stop_event THEN 100 ELSE f.tout]]
    /\ hpc' = [hpc EXCEPT ![h] = "select"]
    /\ UNCHANGED <<stop_event, _active, lvars, pvars, sock_open, rbuf, sent, deregs,
                   closes>>

\* A handler that answers again as soon as the socket is readable.
H_select_resend(h) ==
    /\ ProcessAlive
    /\ hpc[h] = "select"
    /\ inbuf[h] # <<>> \/ peer_closed[h]
    /\ hpc' = [hpc EXCEPT ![h] = "send"]
    /\ UNCHANGED <<stop_event, _active, lvars, pvars, sock_open, rbuf, frame, sent,
                   deregs, closes>>

\* select finds the socket readable: bytes have arrived or the peer closed.
H_select(h) ==
    /\ ProcessAlive
    /\ hpc[h] = "select"
    /\ inbuf[h] # <<>> \/ peer_closed[h]
    /\ hpc' = [hpc EXCEPT ![h] = "loop"]
    /\ UNCHANGED <<stop_event, _active, lvars, pvars, sock_open, rbuf, frame, sent,
                   deregs, closes>>

\* select times out: not ready, break (lines 239-240)
H_select_timeout(h) ==
    /\ ProcessAlive
    /\ hpc[h] = "select"
    /\ inbuf[h] = <<>>
    /\ ~peer_closed[h]
    /\ hpc' = [hpc EXCEPT ![h] = "finally"]
    /\ UNCHANGED <<stop_event, _active, lvars, pvars, sock_open, rbuf, frame, sent,
                   deregs, closes>>

\* finally: dec_active() (line 242)
H_finally(h) ==
    /\ ProcessAlive
    /\ hpc[h] = "finally"
    /\ _active' = dec_active(_active)
    /\ deregs' = [deregs EXCEPT ![h] = @ + 1]
    /\ hpc' = [hpc EXCEPT ![h] = "close"]
    /\ UNCHANGED <<stop_event, lvars, pvars, sock_open, rbuf, frame, sent, closes>>

\* connectionSocket.close() (line 243); the thread ends and its locals with
\* it, and the kernel drops what the socket had not delivered.
H_close(h) ==
    /\ ProcessAlive
    /\ hpc[h] = "close"
    /\ sock_open' = [sock_open EXCEPT ![h] = FALSE]
    /\ closes' = [closes EXCEPT ![h] = @ + 1]
    /\ hpc' = [hpc EXCEPT ![h] = "done"]
    /\ inbuf' = [inbuf EXCEPT ![h] = <<>>]
    /\ rbuf' = [rbuf EXCEPT ![h] = <<>>]
    /\ frame' = [frame EXCEPT ![h] = NoFrame]
    /\ UNCHANGED <<stop_event, _active, lvars, peer_closed, nsend, sent, deregs>>

Handler(h) ==
    \/ H_start(h) \/ H_loop(h) \/ H_parse(h)
    \/ H_recv_timeout(h) \/ H_recv_eof(h) \/ H_recv_error(h) \/ H_recv(h)
    \/ H_open(h) \/ H_open_error(h)
    \/ H_send(h) \/ H_send_error(h)
    \/ H_tout(h) \/ H_stopped(h) \/ H_select(h) \/ H_select_timeout(h)
    \/ H_finally(h) \/ H_close(h)

Listener(limit) ==
    \/ L_test \/ L_accept(limit) \/ L_accept_timeout \/ L_append
    \/ L_close \/ L_copy \/ L_join \/ L_join_timeout

(***************************************************************************)
(* The system: the listener, the signal, the handlers and their peers.     *)
(***************************************************************************)
Next ==
    \/ handle_signals
    \/ Listener(MaxConn)
    \/ \E h \in Conn : Handler(h) \/ PeerSend(h) \/ PeerClose(h)

Spec == Init /\ [][Next]_vars

(***************************************************************************)
(* One connection before any shutdown, fed complete requests of every      *)
(* shape, each sent once the one before it is answered.                    *)
(***************************************************************************)
NextOne ==
    \/ L_test \/ L_accept(1) \/ L_accept_timeout \/ L_append
    \/ \E h \in Conn :
        \/ H_start(h) \/ H_loop(h) \/ H_parse(h)
        \/ H_recv(h) \/ H_recv_timeout(h) \/ H_recv_error(h)
        \/ H_open(h) \/ H_open_error(h) \/ H_send(h) \/ H_send_error(h)
        \/ H_tout(h) \/ H_stopped(h) \/ H_select(h) \/ H_select_timeout(h)
        \/ H_finally(h) \/ H_close(h)
        \/ PeerRequest(h)

SpecOne == Init /\ [][NextOne]_vars

(***************************************************************************)
(* The same connection with a signal that may come at any moment.          *)
(***************************************************************************)
NextStop == handle_signals \/ NextOne

SpecStop == Init /\ [][NextStop]_vars

(***************************************************************************)
(* One connection under load: sessions that are not modelled one by one    *)
(* start and end beside it, each calling inc_active and dec_active.        *)
(***************************************************************************)
\* The modelled handlers that have registered and not yet deregistered.
Registered ==
    {h \in Conn : hpc[h] \notin {"unborn", "start", "close", "done"}}

Load_start ==
    /\ _active - Cardinality(Registered) < MaxLoad
    /\ _active' = inc_active(_active)
    /\ UNCHANGED <<stop_event, lvars, pvars, hvars>>

Load_end ==
    /\ _active - Cardinality(Registered) > 0
    /\ _active' = dec_active(_active)
    /\ UNCHANGED <<stop_event, lvars, pvars, hvars>>

NextTracker ==
    \/ Load_start \/ Load_end
    \/ L_test \/ L_accept(1) \/ L_accept_timeout \/ L_append
    \/ \E h \in Conn :
        \/ H_start(h) \/ H_loop(h) \/ H_parse(h) \/ H_recv(h) \/ H_recv_timeout(h)
        \/ H_open(h) \/ H_send(h) \/ H_tout(h) \/ H_stopped(h)
        \/ H_select(h) \/ H_select_timeout(h) \/ H_finally(h) \/ H_close(h)
        \/ PeerSend(h)

SpecTracker == Init /\ [][NextTracker]_vars

(***************************************************************************)
(* The connections before any shutdown, with peers that send requests the  *)
(* parser rejects and peers that close before their headers are complete.  *)
(***************************************************************************)
NextBroken ==
    \/ L_test \/ L_accept(MaxConn) \/ L_accept_timeout \/ L_append
    \/ \E h \in Conn : Handler(h) \/ PeerBroken(h) \/ PeerClose(h)

SpecBroken == Init /\ [][NextBroken]_vars

(***************************************************************************)
(* Shutdown of one connection, with time.  The listener and the handler     *)
(* thread keep being scheduled (the interpreter switches threads every few *)
(* milliseconds) and every call with a timeout returns; the peer, which    *)
(* may send its request in pieces, and the signal are free.                *)
(***************************************************************************)
ListenerDrain ==
    \/ L_test \/ L_accept(1) \/ L_accept_timeout \/ L_append
    \/ L_close \/ L_copy \/ L_join \/ L_join_grace

NextDrain ==
    \/ handle_signals
    \/ ListenerDrain
    \/ \E h \in Conn : Handler(h) \/ PeerSlow(h) \/ PeerClose(h)

SpecDrain ==
    /\ Init
    /\ [][NextDrain]_vars
    /\ WF_vars(ListenerDrain)
    /\ \A h \in Conn : WF_vars(Handler(h))

(***************************************************************************)
(* The system with a listener that keeps running: its accept and its joins *)
(* return within their timeouts.  Nothing is assumed of the handlers, of   *)
(* the peers or of the signal.                                             *)
(***************************************************************************)
SpecGrace == Init /\ [][Next]_vars /\ WF_vars(Listener(MaxConn))

(***************************************************************************)
(* Properties.                                                             *)
(***************************************************************************)
\* The handlers that have run inc_active and have not run dec_active.
Counted == {h \in Conn : hpc[h] \notin {"unborn", "start"} /\ deregs[h] = 0}

\* The handlers that have left their request loop.
Left == {h \in Conn : hpc[h] \in {"finally", "close", "done"}}

\* C1: in every reachable state the Activity Counter is not negative and
\* equals the number of handlers that have run inc_active and not yet
\* dec_active.
C1_CounterExact == _active >= 0 /\ _active = Cardinality(Counted)

\* One handler is counted and waits between requests while the other has
\* already deregistered.
C1_Witness ==
    /\ Cardinality(Counted) = 1
    /\ _active = 1
    /\ \E h \in Conn : deregs[h] = 1
    /\ \E h \in Conn : hpc[h] \in {"tout", "stopped", "select"}

\* C6: once every handler that was started has finished, whatever the
\* interleaving and also after exits by an exception, the Activity Counter
\* is 0.
C6_BackToZero ==
    (\A h \in Conn : hpc[h] \in {"unborn", "done"}) => _active = 0

\* All MaxConn handlers ran and finished before any shutdown, and one of them
\* was sent a request and answered nothing: it left by an exception.
C6_Witness ==
    /\ \A h \in Conn : hpc[h] = "done"
    /\ ~stop_event
    /\ \E h \in Conn : nsend[h] > 0 /\ sent[h] = 0
    /\ _active = 0

\* C8 as stated: once the shutdown flag is set the listener accepts no further
\* connection and starts no further handler.
C8_NoAcceptAfterFlag == late = 0

\* C8 as amended: after the flag is set the listener accepts at most one more
\* connection, the one its pending accept call returns, and starts at most
\* one more handler; it has closed the listening socket before it waits for
\* the handlers.
C8_AtMostOneAfterFlag ==
    /\ late <= 1
    /\ late = 1 => stop_event
    /\ lpc \in {"copy", "join", "done"} => ~server_open /\ stop_event
    /\ lpc \in {"close", "copy", "join", "done"} =>
            \A h \in Conn : hpc[h] # "unborn" =>
                \E i \in 1 .. Len(threads) : threads[i] = h

\* A connection was accepted after the flag was set, and the listener has
\* closed its socket and waits for the handlers.
C8_Witness == late = 1 /\ lpc = "join" /\ ~server_open

\* C9: a handler that has left its request loop deregisters exactly once and
\* then closes its socket exactly once; none has ended while counted or with
\* its socket open, and none deregisters or closes while in the loop.
C9_ReleasedOnce ==
    \A h \in Conn :
        /\ hpc[h] = "done" => deregs[h] = 1 /\ closes[h] = 1 /\ ~sock_open[h]
        /\ hpc[h] = "close" => deregs[h] = 1 /\ closes[h] = 0 /\ sock_open[h]
        /\ hpc[h] \notin {"close", "done"} => deregs[h] = 0 /\ closes[h] = 0
        /\ hpc[h] = "done" => h \notin Counted

\* A handler that was answering a request ended without the response going
\* out (sendall or open raised), and another ended after its answers.
C9_Witness ==
    /\ ~stop_event
    /\ \E h \in Conn : hpc[h] = "done" /\ nsend[h] > 0 /\ sent[h] = 0
    /\ \E h \in Conn : hpc[h] = "done" /\ sent[h] > 0

(***************************************************************************)
(* What a request says, read off its lines without the parser.             *)
(***************************************************************************)
\* The index of the empty line that ends the headers.
HeadersEnd(lines) ==
    CHOOSE i \in 2 .. Len(lines) :
        lines[i].blank /\ \A j \in 2 .. i - 1 : ~lines[j].blank

\* The values of the header lines named name (in lower case), in order.
HeaderValues(lines, name) ==
    {strip(lines[i].value) :
        i \in {j \in 2 .. HeadersEnd(lines) - 1 :
                    lines[j].sep /\ lower(strip(lines[j].key)) = name}}

WellFormed(lines) == has_terminator(lines) /\ Len(lines[1].fields) = 3

Method(lines) == lines[1].fields[1]

Uri(lines) == lines[1].fields[2]

Version(lines) == lines[1].fields[3]

\* A request the parser has no reason to reject.
ValidRequest(lines) ==
    /\ WellFormed(lines)
    /\ Method(lines) \in {"GET", "HEAD"}
    /\ Version(lines) = "HTTP/1.1" => HeaderValues(lines, "host") = {"x"}

IsUnder(dir, p) == Len(p) >= Len(dir) /\ SubSeq(p, 1, Len(dir)) = dir

\* The file a URI leads to once "..", the percent escapes and the symbolic
\* links are resolved.
Target(uri) == FollowLinks(<<>>, normpath(<<>>, ROOT_DIR \o lstrip_split(unquote(uri))))

\* The files outside the document root.
OutsideFiles == {p \in DOMAIN FS : FS[p].type = "file" /\ ~IsUnder(ROOT_DIR, p)}

\* The URIs that name a readable regular file of the document root outright.
ServedUris ==
    {u \in Uris :
        LET p == ROOT_DIR \o lstrip_split(u)
        IN  /\ \A i \in 1 .. Len(p) : p[i] \notin {"..", "%2e%2e"}
            /\ p \in DOMAIN FS
            /\ FS[p].type = "file"
            /\ FS[p].readable}

ServedFile(u) == FS[ROOT_DIR \o lstrip_split(u)]

\* C2: after a response with status >= 400, or to an HTTP/1.0 request, or to
\* a request that carried Connection: close, the handler closes: it goes on
\* to its release and never back to reading or to the idle wait.
C2_ClosesAfterResponse ==
    [][\A h \in Conn :
        /\ ( /\ hpc[h] = "send"
             /\ sent'[h] = sent[h] + 1
             /\ \/ frame[h].status >= 400
                \/ WellFormed(rbuf[h]) /\ Version(rbuf[h]) = "HTTP/1.0"
                \/ WellFormed(rbuf[h])
                   /\ "close" \in HeaderValues(rbuf[h], "connection") )
           => hpc'[h] = "finally"
        /\ h \in Left => hpc'[h] \in {"finally", "close", "done"}]_vars

\* C3: a valid request whose URI resolves outside the document root, by ".."
\* or by a symbolic link, is answered 403 and its file is never opened; no
\* response carries the bytes of a file outside the root.
C3_NoEscape ==
    \A h \in Conn :
        /\ ( /\ hpc[h] \in {"open", "send"}
             /\ ValidRequest(rbuf[h])
             /\ ~IsUnder(ROOT_DIR, Target(Uri(rbuf[h]))) )
           => hpc[h] = "send" /\ frame[h].response.status = FORBIDDEN
        /\ hpc[h] = "send" =>
                \A p \in OutsideFiles : frame[h].response.body # FS[p].content

\* C4: an HTTP/1.1 request without a Host header is answered 400 whatever its
\* URI and other headers, and no file is looked up for it.
C4_MissingHost400 ==
    \A h \in Conn :
        ( /\ hpc[h] \in {"open", "send"}
          /\ WellFormed(rbuf[h])
          /\ Version(rbuf[h]) = "HTTP/1.1"
          /\ HeaderValues(rbuf[h], "host") = {} )
        => /\ hpc[h] = "send"
           /\ frame[h].status = BAD_REQUEST
           /\ frame[h].response.status = BAD_REQUEST
           /\ frame[h].file = <<>>
           /\ frame[h].method = None

\* An HTTP/1.1 request for a missing file, with a Connection header and no
\* Host header, is about to be answered 400.
C4_Witness ==
    \E h \in Conn :
        /\ hpc[h] = "send"
        /\ WellFormed(rbuf[h])
        /\ Version(rbuf[h]) = "HTTP/1.1"
        /\ Uri(rbuf[h]) = "/missing.txt"
        /\ HeaderValues(rbuf[h], "host") = {}
        /\ HeaderValues(rbuf[h], "connection") = {"keep-alive"}
        /\ frame[h].response.status = BAD_REQUEST

\* C5 as stated: for every readable regular file of the root, the empty one
\* included, a valid GET is answered 200 with the file's bytes and a
\* Content-Length equal to their number, and a valid HEAD 200 with no body.
C5_FileServed ==
    \A h \in Conn :
        ( /\ hpc[h] = "send"
          /\ ValidRequest(rbuf[h])
          /\ Uri(rbuf[h]) \in ServedUris )
        => LET r == frame[h].response
               f == ServedFile(Uri(rbuf[h]))
           IN  /\ r.status = OK
               /\ Method(rbuf[h]) = "GET" =>
                        r.body = f.content /\ r.content_length = <<Len(r.body)>>
               /\ Method(rbuf[h]) = "HEAD" => r.body = ""

\* C5 as amended: the same, but the Content-Length header is there only when
\* the body is not empty: a GET of an empty file and every HEAD are answered
\* 200 without it.
C5_FileServedAmended ==
    \A h \in Conn :
        ( /\ hpc[h] = "send"
          /\ ValidRequest(rbuf[h])
          /\ Uri(rbuf[h]) \in ServedUris )
        => LET r == frame[h].response
               f == ServedFile(Uri(rbuf[h]))
           IN  /\ r.status = OK
               /\ Method(rbuf[h]) = "GET" =>
                    /\ r.body = f.content
                    /\ r.content_length =
                            IF f.content = "" THEN <<>> ELSE <<Len(f.content)>>
               /\ Method(rbuf[h]) = "HEAD" => r.body = "" /\ r.content_length = <<>>

\* A GET of the empty file is about to be answered 200 with no body and no
\* Content-Length.
C5_Witness ==
    \E h \in Conn :
        /\ hpc[h] = "send"
        /\ ValidRequest(rbuf[h])
        /\ Method(rbuf[h]) = "GET"
        /\ Uri(rbuf[h]) = "/empty.txt"
        /\ frame[h].response.status = OK
        /\ frame[h].response.body = ""
        /\ frame[h].response.content_length = <<>>

\* The timeouts of section 4.5, in seconds.
IdleSeconds(n) ==
    CASE n < 5 -> 10
      [] n >= 5 /\ n < 20 -> 5
      [] n >= 20 -> 2

\* C7: each time a handler enters the idle wait its timeout is 10, 5 or 2
\* seconds by the Activity Counter as it is then (below 5, below 20, above),
\* and against its timeout of the entry before it is no longer when the
\* counter is no lower and no shorter when the counter is no higher.
C7_TimeoutByLoad ==
    [][\A h \in Conn :
        (hpc[h] = "tout" /\ hpc'[h] = "stopped") =>
            /\ frame'[h].n = _active
            /\ frame'[h].tout = 1000 * IdleSeconds(_active)
            /\ frame[h].tout \notin {0, 100} =>
                /\ frame[h].n <= _active => frame'[h].tout <= frame[h].tout
                /\ frame[h].n >= _active => frame'[h].tout >= frame[h].tout]_vars

\* A handler that waited with 10 seconds when fewer than 5 sessions were
\* active enters the idle wait again with 20 or more active.
C7_Witness ==
    \E h \in Conn :
        /\ hpc[h] = "tout"
        /\ frame[h].n < 5
        /\ frame[h].tout = 10000
        /\ _active >= 20

\* C10: the Connection header is the negotiated directive for HTTP/1.1 with a
\* directive, else "close" for the statuses 400, 403 and 404, else absent.
C10_ConnectionHeader ==
    \A h \in Conn :
        hpc[h] = "send" =>
            frame[h].response.connection =
                IF frame[h].version = "HTTP/1.1"
                   /\ frame[h].connection \notin {None, ""}
                THEN <<frame[h].connection>>
                ELSE IF frame[h].status \in {BAD_REQUEST, FORBIDDEN, NOT_FOUND}
                THEN <<"close">>
                ELSE <<>>

\* The request read for a cycle is one the parser fails on: the peer closed
\* before the terminator, or the request line has other than three fields, or
\* the method is neither GET nor HEAD, or it is HTTP/1.1 without a Host header.
ParseFails(lines) ==
    \/ ~has_terminator(lines)
    \/ Len(lines[1].fields) # 3
    \/ Method(lines) \notin {"GET", "HEAD"}
    \/ Version(lines) = "HTTP/1.1" /\ HeaderValues(lines, "host") = {}

\* Everything of the listener and of the handlers other than h is as before.
OthersUnchanged(h) ==
    /\ UNCHANGED <<stop_event, _active, lvars>>
    /\ \A g \in Conn \ {h} :
            UNCHANGED <<hpc[g], sock_open[g], rbuf[g], frame[g], sent[g],
                        deregs[g], closes[g], inbuf[g], peer_closed[g]>>

\* C11: when parsing fails the handler's one response is 400 with the fixed
\* body and Connection: close, after it the handler leaves its loop and sends
\* nothing more, and the steps that answer the failure change nothing of the
\* listener or of another handler.
C11_ParseFailure ==
    [][\A h \in Conn :
        /\ (hpc[h] = "send" /\ ParseFails(rbuf[h])) =>
                /\ frame[h].response.status = BAD_REQUEST
                /\ frame[h].response.body = "<h1>400 Bad Request</h1>"
                /\ frame[h].response.connection = <<"close">>
                /\ hpc'[h] \in {"send", "finally"}
                /\ sent'[h] \in {sent[h], sent[h] + 1}
                /\ hpc'[h] = "finally" => OthersUnchanged(h)
        /\ (hpc[h] = "recv" /\ hpc'[h] = "send"
                /\ frame'[h].status = BAD_REQUEST) => OthersUnchanged(h)
        /\ h \in Left => sent'[h] = sent[h]]_vars

\* A peer closed before its headers were complete and is about to be answered
\* 400, while another connection, served before, waits for its next request.
C11_Witness ==
    \E h, g \in Conn :
        /\ h # g
        /\ hpc[h] = "send"
        /\ peer_closed[h]
        /\ rbuf[h] = FirstHalf
        /\ frame[h].response.status = BAD_REQUEST
        /\ hpc[g] = "select"
        /\ sent[g] = 1

\* The path a URI names under the root, "/" standing for "/index.html", with
\* its percent escapes decoded and its "." and ".." components collapsed.
Candidate(uri) ==
    normpath(<<>>, ROOT_DIR \o lstrip_split(IF uri = "/" THEN "/index.html"
                                            ELSE unquote(uri)))

\* What the path leads to in the file system, or nothing.
Leads(p) ==
    LET q == FollowLinks(<<>>, p)
    IN  IF q \in DOMAIN FS THEN {FS[q]} ELSE {}

\* C12: for a request that parses, a path outside the root is answered 403
\* with the fixed body, a path in the root that is missing or not a regular
\* file 404 with the fixed body, an unreadable file 403; and after a 403 or
\* 404 the handler leaves its loop, whatever the version and the headers.
C12_ResolverFailure ==
    [][\A h \in Conn :
        (hpc[h] = "send" /\ ValidRequest(rbuf[h])) =>
            LET p == Candidate(Uri(rbuf[h]))
                r == frame[h].response
                Forbidden == r.status = FORBIDDEN /\ r.body = "<h1>403 Forbidden</h1>"
                NotFound == r.status = NOT_FOUND /\ r.body = "<h1>404 Not Found</h1>"
            IN  /\ ~IsUnder(ROOT_DIR, p) => Forbidden
                /\ (IsUnder(ROOT_DIR, p)
                        /\ \A n \in Leads(p) : n.type # "file") => NotFound
                /\ (IsUnder(ROOT_DIR, p)
                        /\ \E n \in Leads(p) : n.type = "file" /\ ~n.readable)
                    => Forbidden
                /\ r.status \in {FORBIDDEN, NOT_FOUND}
                    => hpc'[h] \in {"send", "finally"}]_vars

\* The 404 to an HTTP/1.1 request with a Host header and no Connection
\* header has been sent and the handler has left its loop.
C12_Witness ==
    \E h \in Conn :
        /\ hpc[h] = "finally"
        /\ sent[h] = 1
        /\ frame[h].response.status = NOT_FOUND
        /\ frame[h].response.body = "<h1>404 Not Found</h1>"
        /\ frame[h].version = "HTTP/1.1"
        /\ frame[h].connection = None

\* C13: the shutdown flag starts false, once true it stays true, and the
\* step that sets it is the signal handler's: it changes nothing else.
C13_FlagMonotonic ==
    /\ ~stop_event
    /\ [][/\ stop_event => stop_event'
          /\ stop_event' # stop_event =>
                stop_event' /\ UNCHANGED <<_active, lvars, pvars, hvars>>]_vars

\* The flag is still set when the listener has closed its socket and ended
\* and a handler has seen the flag and finished without an answer.
C13_Witness ==
    /\ stop_event
    /\ lpc = "done"
    /\ ~server_open
    /\ \E h \in Conn : hpc[h] = "done" /\ nsend[h] > 0 /\ sent[h] = 0

\* C14 as stated: once the flag is set, every handler there is reaches CLOSED.
C14_AllClose ==
    \A h \in Conn :
        (stop_event /\ hpc[h] # "unborn") ~> (hpc[h] = "done")

\* C14 as amended: once the flag is set, every handler there is reaches
\* CLOSED, or the process ends while the handler is still in an idle wait
\* longer than the join's timeout.
C14_CloseOrCutOff ==
    \A h \in Conn :
        (stop_event /\ hpc[h] # "unborn") ~>
            \/ hpc[h] = "done"
            \/ /\ lpc = "done"
               /\ hpc[h] = "select"
               /\ frame[h].tout > JOIN_TIMEOUT

\* The flag was set while the handler had read half a request: the handler
\* has closed without an answer and the listener has joined it and ended.
C14_Witness ==
    /\ stop_event
    /\ lpc = "done"
    /\ \E h \in Conn : hpc[h] = "done" /\ nsend[h] = 1 /\ sent[h] = 0
                        /\ deregs[h] = 1 /\ closes[h] = 1 /\ ~peer_closed[h]

\* C15: once the flag is set the listener ends, whatever the handlers do, and
\* the return of a join, the handler finished or not, changes nothing of any
\* handler.
C15_ListenerEnds ==
    /\ stop_event ~> (lpc = "done")
    /\ [][(lpc = "join" /\ ji' # ji) =>
                UNCHANGED <<stop_event, _active, pvars, hvars>>]_vars

\* The listener has ended after the flag was set: it joined one handler that
\* had finished and gave up on another that is still reading.
C15_Witness ==
    /\ stop_event
    /\ lpc = "done"
    /\ Len(thread_list) = 2
    /\ \E h, g \in Conn :
        /\ hpc[h] = "done"
        /\ hpc[g] \in {"parse", "recv"}
        /\ sock_open[g]
        /\ g \in Counted

\* The connection directive of a request: the value of its last Connection
\* header, or none.
Directive(lines) ==
    LET at == {j \in 2 .. HeadersEnd(lines) - 1 :
                    lines[j].sep /\ lower(strip(lines[j].key)) = "connection"}
    IN  IF at = {} THEN None
        ELSE strip(lines[CHOOSE j \in at : \A k \in at : k <= j].value)

\* C16: the idle wait is entered only by sending a response with status
\* below 400 to a request that is not HTTP/1.0 and whose directive is not
\* "close"; it is left for the top of a cycle when the socket is readable and
\* for the release otherwise, nothing being sent; and when the flag is set at
\* the handler's test the timeout is the minimal one, else the one by load.
C16_IdleWait ==
    [][\A h \in Conn :
        /\ (hpc[h] # "tout" /\ hpc'[h] = "tout") =>
                /\ hpc[h] = "send"
                /\ sent'[h] = sent[h] + 1
                /\ frame[h].response.status < 400
                /\ WellFormed(rbuf[h])
                /\ Version(rbuf[h]) # "HTTP/1.0"
                /\ Directive(rbuf[h]) # "close"
        /\ (hpc[h] = "stopped" /\ hpc'[h] # "stopped") =>
                /\ hpc'[h] = "select"
                /\ frame'[h].tout = IF stop_event THEN 100
                                    ELSE 1000 * IdleSeconds(frame[h].n)
        /\ (hpc[h] = "select" /\ hpc'[h] # "select") =>
                /\ sent'[h] = sent[h]
                /\ hpc'[h] = IF inbuf[h] # <<>> \/ peer_closed[h]
                             THEN "loop" ELSE "finally"
        /\ h \in Left => sent'[h] = sent[h]]_vars

\* A handler that answered one request waits for the next with the minimal
\* timeout, the flag having been set before its test.
C16_Witness ==
    \E h \in Conn :
        /\ stop_event
        /\ hpc[h] = "select"
        /\ sent[h] = 1
        /\ frame[h].version = "HTTP/1.1"
        /\ frame[h].tout = 100

\* C17: a handler that finds the flag set at the top of a cycle, or in the
\* read loop before the terminator has come, goes to its release and sends
\* nothing, then or later; and the handler of a connection accepted after the
\* flag was set (the one started last) never gets past the top of its first
\* cycle and sends nothing.
C17_NoAnswerOnCancel ==
    [][/\ \A h \in Conn :
            /\ (stop_event /\ hpc[h] \in {"loop", "parse"}
                    /\ hpc'[h] # hpc[h]) =>
                    hpc'[h] = "finally" /\ sent'[h] = sent[h]
            /\ h \in Left =>
                    sent'[h] = sent[h] /\ hpc'[h] \in {"finally", "close", "done"}
       /\ late > 0 =>
            /\ sent[t] = 0
            /\ nsend[t] > 0 => inbuf[t] # <<>> \/ hpc[t] = "done"
            /\ hpc[t] \in {"start", "loop", "finally", "close", "done"}]_vars

\* The flag was set when the handler had read the first half of a request
\* and no terminator: it has left its loop and has sent nothing.
C17_Witness ==
    \E h \in Conn :
        /\ stop_event
        /\ hpc[h] = "finally"
        /\ rbuf[h] = FirstHalf
        /\ inbuf[h] = <<>>
        /\ ~peer_closed[h]
        /\ sent[h] = 0

\* C18: a handler leaves the loop that reads the headers only with the
\* terminator read, on a read of zero bytes, or on finding the flag set; a
\* read that times out sends nothing, closes nothing and goes round the loop;
\* and a handler in the loop is counted and its socket open.
C18_HeaderReadExits ==
    [][\A h \in Conn :
        /\ (hpc[h] \in {"parse", "recv"} /\ hpc'[h] \notin {"parse", "recv"}) =>
                \/ hpc[h] = "recv" /\ has_terminator(rbuf'[h])
                \/ hpc[h] = "recv" /\ inbuf[h] = <<>> /\ peer_closed[h]
                \/ hpc[h] = "parse" /\ stop_event
        /\ (hpc[h] = "recv" /\ inbuf[h] = <<>> /\ ~peer_closed[h]
                /\ hpc'[h] # "recv") =>
                /\ hpc'[h] = "parse"
                /\ sent'[h] = sent[h]
                /\ sock_open'[h]
                /\ frame'[h] = frame[h]
        /\ hpc[h] \in {"parse", "recv"} => h \in Counted /\ sock_open[h]]_vars

\* The state of section 4.4 a handler is in.
Phase(pc) ==
    CASE pc = "unborn" -> "NONE"
      [] pc = "start" -> "STARTING"
      [] pc \in {"loop", "parse", "recv", "open", "send"} -> "SERVING"
      [] pc \in {"tout", "stopped", "select"} -> "IDLE_WAIT"
      [] pc \in {"finally", "close"} -> "CLOSING"
      [] pc = "done" -> "CLOSED"

\* The arrows of STARTING -> SERVING -> (IDLE_WAIT -> SERVING)* -> CLOSING ->
\* CLOSED, with the accept that starts a handler.
StatedArrows ==
    {<<"NONE", "STARTING">>, <<"STARTING", "SERVING">>,
     <<"SERVING", "IDLE_WAIT">>, <<"IDLE_WAIT", "SERVING">>,
     <<"SERVING", "CLOSING">>, <<"CLOSING", "CLOSED">>}

\* A handler changes state only along the arrows of A; SERVING is entered
\* at the top of a cycle; a response is sent only by the step that ends the
\* cycle's SERVING, one at a time; CLOSED is left by nothing.
Lifecycle(A) ==
    \A h \in Conn :
        /\ Phase(hpc'[h]) # Phase(hpc[h]) =>
                /\ <<Phase(hpc[h]), Phase(hpc'[h])>> \in A
                /\ Phase(hpc'[h]) = "SERVING" => hpc'[h] = "loop"
        /\ sent'[h] # sent[h] =>
                /\ sent'[h] = sent[h] + 1
                /\ hpc[h] = "send"
                /\ Phase(hpc'[h]) \in {"IDLE_WAIT", "CLOSING"}
        /\ hpc[h] = "done" => hpc'[h] = "done"

\* C19 as stated: the handler follows STARTING -> SERVING -> (IDLE_WAIT ->
\* SERVING)* -> CLOSING -> CLOSED and makes no other transition; it sends at
\* most one response per cycle and has sent it before the next cycle.
C19_StatedLifecycle == [][Lifecycle(StatedArrows)]_vars

\* C19 as amended: the same with the arrow from IDLE_WAIT to CLOSING, taken
\* when the idle wait times out.
C19_Lifecycle ==
    [][Lifecycle(StatedArrows \cup {<<"IDLE_WAIT", "CLOSING">>})]_vars

\* A handler that answered one request and waited the full idle time has
\* gone from the idle wait to its release.
C19_Witness ==
    \E h \in Conn :
        /\ ~stop_event
        /\ hpc[h] = "finally"
        /\ sent[h] = 1
        /\ frame[h].version = "HTTP/1.1"
        /\ frame[h].response.status = OK
        /\ frame[h].tout = 10000

\* The lines up to and with the first blank line.
FirstRequest(lines) == SubSeq(lines, 1, HeadersEnd(lines))

\* C20: a read that completes the headers takes every byte that has arrived,
\* and the cycle's outcome is that of the lines up to the first terminator
\* alone; the bytes read are gone once the response is sent and at the top of
\* the next cycle; and a handler in its idle wait with nothing new arrived
\* leaves the wait only by its timeout, to close.
C20_ReadConsumed ==
    [][\A h \in Conn :
        /\ (hpc[h] = "recv" /\ hpc'[h] \in {"open", "send"}
                /\ has_terminator(rbuf'[h])) =>
                LET first == after_headers(frame[h], FirstRequest(rbuf'[h]))
                IN  /\ rbuf'[h] = rbuf[h] \o inbuf[h]
                    /\ inbuf'[h] = <<>>
                    /\ hpc'[h] = first.pc
                    /\ frame'[h] = first.frame
        /\ hpc'[h] \in {"tout", "stopped", "select", "loop"} => rbuf'[h] = <<>>
        /\ (hpc[h] = "loop" /\ hpc'[h] = "parse") => rbuf'[h] = <<>>
        /\ (hpc[h] = "select" /\ inbuf[h] = <<>> /\ ~peer_closed[h]
                /\ hpc'[h] # "select") =>
                hpc'[h] = "finally" /\ sent'[h] = sent[h]]_vars

\* Two complete requests were delivered and taken by one read, one response
\* was sent, and the handler waits with nothing to read.
C20_Witness ==
    \E h \in Conn :
        /\ hpc[h] = "select"
        /\ nsend[h] = 2
        /\ sent[h] = 1
        /\ inbuf[h] = <<>>
        /\ ~peer_closed[h]
        /\ frame[h].tout = 10000

====
